---- MODULE Spec2Model ----
(***************************************************************************)
(* The GLPI node of n8n-openapi-glpi: Glpi.execute, the operation          *)
(* dispatcher that turns each input item into one HTTP request.            *)
(*                                                                         *)
(* The repository holds three drafts of the executor; all three are        *)
(* modelled and `variant` says which one runs:                             *)
(*   1  src/nodes/Glpi/Glpi.node.ts:117-269  (token fetched before loop)   *)
(*   2  src/nodes/Glpi/Glpi.node.ts:365-490  (httpRequestWithAuthentication)*)
(*   3  src/unnamed/part_000:94-291          (token fetched per item)      *)
(*                                                                         *)
(* Strings the code takes apart (operation identifiers, paths, parameter   *)
(* values) are sequences of one-character strings.  JavaScript values are  *)
(* records [t |-> tag, v |-> payload].                                     *)
(***************************************************************************)
EXTENDS Integers, Sequences, FiniteSets, TLC

\* ------------------------------------------------------------------ strings

Range(s) == {s[k] : k \in 1..Len(s)}

\* s.startsWith(p)
StartsWith(s, p) == Len(s) >= Len(p) /\ SubSeq(s, 1, Len(p)) = p

\* the tail of s from (1-based) position p on
From(s, p) == SubSeq(s, p, Len(s))

Whitespace == {" ", "\n", "\t"}

RECURSIVE TrimLeft(_)
TrimLeft(s) ==
  IF s # <<>> /\ Head(s) \in Whitespace THEN TrimLeft(Tail(s)) ELSE s

RECURSIVE TrimRight(_)
TrimRight(s) ==
  IF s # <<>> /\ s[Len(s)] \in Whitespace
  THEN TrimRight(SubSeq(s, 1, Len(s) - 1)) ELSE s

\* String.prototype.trim
Trim(s) == TrimRight(TrimLeft(s))

\* ------------------------------------------------------------ JS values

Undefined == [t |-> "undefined"]
Null      == [t |-> "null"]
Num(n)    == [t |-> "num", v |-> n]
Str(s)    == [t |-> "str", v |-> s]
Arr(a)    == [t |-> "arr", v |-> a]
\* an object is the sequence of its [k, v] members, keys distinct
Obj(m)    == [t |-> "obj", v |-> m]

\* obj[key] = val on the member list m
SetMember(m, key, val) ==
  IF \E k \in 1..Len(m) : m[k].k = key
  THEN [k \in 1..Len(m) |-> IF m[k].k = key THEN [k |-> key, v |-> val] ELSE m[k]]
  ELSE Append(m, [k |-> key, v |-> val])

HasMember(m, key) == \E k \in 1..Len(m) : m[k].k = key
GetMember(m, key) == m[CHOOSE k \in 1..Len(m) : m[k].k = key].v

\* ------------------------------------------------------------ JSON.parse
\* A recursive-descent parser of the JSON grammar over the characters the
\* model uses: null, non-negative integers, strings without escapes, arrays,
\* objects, whitespace.  Each parser returns [ok, v, p]: the value and the
\* position after it.

Digits == <<"0", "1", "2", "3", "4", "5", "6", "7", "8", "9">>
DigitSet == Range(Digits)
DigitVal(c) == (CHOOSE k \in 1..Len(Digits) : Digits[k] = c) - 1

Fail == [ok |-> FALSE]

RECURSIVE SkipWs(_, _)
SkipWs(s, p) ==
  IF p <= Len(s) /\ s[p] \in Whitespace THEN SkipWs(s, p + 1) ELSE p

\* the position of the closing quote of a string starting after position p
RECURSIVE CloseQuote(_, _)
CloseQuote(s, p) ==
  IF p > Len(s) THEN 0
  ELSE IF s[p] = "\"" THEN p
  ELSE CloseQuote(s, p + 1)

RECURSIVE ParseDigits(_, _, _)
ParseDigits(s, p, acc) ==
  IF p <= Len(s) /\ s[p] \in DigitSet
  THEN ParseDigits(s, p + 1, acc * Len(Digits) + DigitVal(s[p]))
  ELSE [ok |-> TRUE, v |-> Num(acc), p |-> p]

RECURSIVE ParseValue(_, _)
RECURSIVE ParseElems(_, _, _)
RECURSIVE ParseMembers(_, _, _)

Parsed(val, next) == [ok |-> TRUE, v |-> val, p |-> next]

\* a string whose opening quote is at p and whose closing quote is at q (0: none)
StringAt(s, p, q) ==
  IF q = 0 THEN Fail ELSE Parsed(Str(SubSeq(s, p + 1, q - 1)), q + 1)

\* an array whose first non-blank character after the bracket is at q
ArrayAt(s, q) ==
  IF q <= Len(s) /\ s[q] = "]" THEN Parsed(Arr(<<>>), q + 1)
  ELSE ParseElems(s, q, <<>>)

\* an object whose first non-blank character after the brace is at q
ObjectAt(s, q) ==
  IF q <= Len(s) /\ s[q] = "}" THEN Parsed(Obj(<<>>), q + 1)
  ELSE ParseMembers(s, q, <<>>)

\* the value that starts at the non-blank position p
ValueAt(s, p) ==
  IF p > Len(s) THEN Fail
  ELSE IF StartsWith(From(s, p), <<"n", "u", "l", "l">>)
    THEN Parsed(Null, p + 4)
  ELSE IF s[p] \in DigitSet
    THEN IF s[p] = "0" /\ p < Len(s) /\ s[p + 1] \in DigitSet
         THEN Fail                       \* no leading zeros in JSON
         ELSE ParseDigits(s, p, 0)
  ELSE IF s[p] = "\"" THEN StringAt(s, p, CloseQuote(s, p + 1))
  ELSE IF s[p] = "[" THEN ArrayAt(s, SkipWs(s, p + 1))
  ELSE IF s[p] = "{" THEN ObjectAt(s, SkipWs(s, p + 1))
  ELSE Fail

ParseValue(s, p0) == ValueAt(s, SkipWs(s, p0))

\* after the element val of an array: q is the next non-blank position
ElemsNext(s, acc, val, q) ==
  IF q > Len(s) THEN Fail
  ELSE IF s[q] = "]" THEN Parsed(Arr(Append(acc, val)), q + 1)
  ELSE IF s[q] = "," THEN ParseElems(s, q + 1, Append(acc, val))
  ELSE Fail

ElemsAfter(s, acc, e) ==
  IF ~e.ok THEN Fail ELSE ElemsNext(s, acc, e.v, SkipWs(s, e.p))

\* the elements of an array, from the first one to the closing bracket
ParseElems(s, p, acc) == ElemsAfter(s, acc, ParseValue(s, p))

\* after a member of an object: m is the member list, r the next non-blank position
MembersNext(s, m, r) ==
  IF r > Len(s) THEN Fail
  ELSE IF s[r] = "}" THEN Parsed(Obj(m), r + 1)
  ELSE IF s[r] = "," THEN ParseMembers(s, r + 1, m)
  ELSE Fail

MemberValue(s, acc, key, e) ==
  IF ~e.ok THEN Fail
  ELSE MembersNext(s, SetMember(acc, key, e.v), SkipWs(s, e.p))

\* the key between the quotes at p and q, then the colon at c
MemberColon(s, acc, key, c) ==
  IF c > Len(s) \/ s[c] # ":" THEN Fail
  ELSE MemberValue(s, acc, key, ParseValue(s, c + 1))

MemberKey(s, acc, p, q) ==
  IF q = 0 THEN Fail
  ELSE MemberColon(s, acc, SubSeq(s, p + 1, q - 1), SkipWs(s, q + 1))

MemberAt(s, acc, p) ==
  IF p > Len(s) \/ s[p] # "\"" THEN Fail
  ELSE MemberKey(s, acc, p, CloseQuote(s, p + 1))

\* the members of an object, from the first key to the closing brace
ParseMembers(s, p0, acc) == MemberAt(s, acc, SkipWs(s, p0))

\* the whole text must be one value
WholeText(s, r) ==
  IF r.ok /\ SkipWs(s, r.p) > Len(s) THEN [ok |-> TRUE, v |-> r.v] ELSE Fail

\* JSON.parse(s): [ok |-> TRUE, v |-> value], or [ok |-> FALSE] where it throws
JSONparse(s) == WholeText(s, ParseValue(s, 1))

\* --------------------------------------------------------- isEmptyValue

\* typeof v === 'object' && v !== null && Object.keys(v).length === 0
IsEmptyObjectLike(v) == v.t \in {"arr", "obj"} /\ Len(v.v) = 0

\* the Array.isArray and typeof 'object' branches, and the final return false
IsEmptyStructure(val) ==
  IF val.t = "arr"
    THEN Len(val.v) = 0 \/ \A k \in 1..Len(val.v) : IsEmptyObjectLike(val.v[k])
  ELSE IF val.t = "obj" THEN Len(val.v) = 0
  ELSE FALSE

IsEmptyLiteral(t) == t = <<"{", "}">> \/ t = <<"[", "]">>

\* Glpi.node.ts:74-91 (draft 1): 0 is a value
RECURSIVE isEmptyValue(_)
RECURSIVE isEmptyParsed(_)

\* try { return isEmptyValue(JSON.parse(t)); } catch {}
isEmptyParsed(parsed) == IF parsed.ok THEN isEmptyValue(parsed.v) ELSE FALSE

isEmptyTrimmed(t) == IF IsEmptyLiteral(t) THEN TRUE ELSE isEmptyParsed(JSONparse(t))

isEmptyValue(val) ==
  IF val.t \in {"undefined", "null"} \/ val = Str(<<>>) THEN TRUE
  ELSE IF val.t = "str" THEN isEmptyTrimmed(Trim(val.v))
  ELSE IsEmptyStructure(val)

\* Glpi.node.ts:317-332 and part_000:46-61 (drafts 2 and 3): 0 is empty
RECURSIVE isEmptyValueZero(_)
RECURSIVE isEmptyParsedZero(_)

isEmptyParsedZero(parsed) == IF parsed.ok THEN isEmptyValueZero(parsed.v) ELSE FALSE

isEmptyTrimmedZero(t) ==
  IF IsEmptyLiteral(t) THEN TRUE ELSE isEmptyParsedZero(JSONparse(t))

isEmptyValueZero(val) ==
  IF val.t \in {"undefined", "null"} \/ val = Str(<<>>) \/ val = Num(0) THEN TRUE
  ELSE IF val.t = "str" THEN isEmptyTrimmedZero(Trim(val.v))
  ELSE IsEmptyStructure(val)

\* ----------------------------------------------------- String(), encoding

\* the decimal digits of a non-negative integer
RECURSIVE DigitsOf(_)
DigitsOf(n) ==
  IF n < Len(Digits) THEN <<Digits[n + 1]>>
  ELSE DigitsOf(n \div Len(Digits)) \o <<Digits[(n % Len(Digits)) + 1]>>

RECURSIVE JoinWith(_, _)
JoinWith(parts, sep) ==
  IF parts = <<>> THEN <<>>
  ELSE IF Len(parts) = 1 THEN parts[1]
  ELSE parts[1] \o sep \o JoinWith(Tail(parts), sep)

\* String(val), also the conversion encodeURIComponent applies to its argument
RECURSIVE JsString(_)
JsString(val) ==
  IF val.t = "str" THEN val.v
  ELSE IF val.t = "num" THEN DigitsOf(val.v)
  ELSE IF val.t = "null" THEN <<"n", "u", "l", "l">>
  ELSE IF val.t = "undefined" THEN <<"u", "n", "d", "e", "f", "i", "n", "e", "d">>
  ELSE IF val.t = "arr"
    THEN JoinWith([k \in 1..Len(val.v) |->
                     IF val.v[k].t \in {"null", "undefined"} THEN <<>>
                     ELSE JsString(val.v[k])], <<",">>)
  ELSE <<"[", "o", "b", "j", "e", "c", "t", " ", "O", "b", "j", "e", "c", "t", "]">>

\* the characters encodeURIComponent escapes, with their escapes
Escapes ==
  [c \in {"/", "{", "}", " ", "\"", "[", "]", ":", ",", "\n", "\t"} |->
     CASE c = "/"  -> <<"%", "2", "F">>
       [] c = "{"  -> <<"%", "7", "B">>
       [] c = "}"  -> <<"%", "7", "D">>
       [] c = " "  -> <<"%", "2", "0">>
       [] c = "\"" -> <<"%", "2", "2">>
       [] c = "["  -> <<"%", "5", "B">>
       [] c = "]"  -> <<"%", "5", "D">>
       [] c = ":"  -> <<"%", "3", "A">>
       [] c = ","  -> <<"%", "2", "C">>
       [] c = "\n" -> <<"%", "0", "A">>
       [] c = "\t" -> <<"%", "0", "9">>]

RECURSIVE EncodeChars(_)
EncodeChars(s) ==
  IF s = <<>> THEN <<>>
  ELSE (IF Head(s) \in DOMAIN Escapes THEN Escapes[Head(s)] ELSE <<Head(s)>>)
       \o EncodeChars(Tail(s))

encodeURIComponent(val) == EncodeChars(JsString(val))

\* ------------------------------------------------------- getNodeParameter

\* A lookup returns the item's value, or throws: a NodeOperationError where
\* the item says so, a plain Error for a parameter the item does not have.
Throw(cls, msg) == [t |-> "throw", v |-> cls, msg |-> msg]
IsThrow(r) == r.t = "throw"

getNodeParameter(item, name) ==
  IF name \in DOMAIN item.params THEN item.params[name]
  ELSE Throw("Error", <<"could not get parameter", name>>)

\* ------------------------------------------------------- operation, path

\* s.split(' ')
RECURSIVE Split(_)
Split(s) ==
  IF \E k \in 1..Len(s) : s[k] = " "
  THEN LET k == CHOOSE j \in 1..Len(s) : s[j] = " " /\ \A h \in 1..(j - 1) : s[h] # " "
       IN <<SubSeq(s, 1, k - 1)>> \o Split(From(s, k + 1))
  ELSE <<s>>

\* operationParts[0]
MethodOf(operation) == Split(operation)[1]

\* operationParts[1] || ''
PathPartOf(operation) ==
  IF Len(Split(operation)) >= 2 THEN Split(operation)[2] ELSE <<>>

validMethods == {<<"G", "E", "T">>, <<"P", "O", "S", "T">>, <<"P", "U", "T">>,
                 <<"P", "A", "T", "C", "H">>, <<"D", "E", "L", "E", "T", "E">>}

bodyMethods == {<<"P", "O", "S", "T">>, <<"P", "U", "T">>, <<"P", "A", "T", "C", "H">>}

\* pathPart.replace(/-/g, '/')
DashToSlash(s) == [k \in 1..Len(s) |-> IF s[k] = "-" THEN "/" ELSE s[k]]

\* draft 1: pathPart.startsWith('/') ? pathPart : '/' + pathPart
BuildPath(pathPart) ==
  IF StartsWith(pathPart, <<"/">>) THEN pathPart ELSE <<"/">> \o pathPart

\* drafts 2 and 3: ... : '/' + pathPart.replace(/-/g, '/')
BuildPathDash(pathPart) ==
  IF StartsWith(pathPart, <<"/">>) THEN pathPart ELSE <<"/">> \o DashToSlash(pathPart)

\* /\{([^}]+)\}/ matches at position s of path: the position of its closing brace, or 0
MatchEnd(path, s) ==
  IF s <= Len(path) /\ path[s] = "{" /\ \E e \in (s + 1)..Len(path) : path[e] = "}"
  THEN LET e == CHOOSE j \in (s + 1)..Len(path) :
                  path[j] = "}" /\ \A h \in (s + 1)..(j - 1) : path[h] # "}"
       IN IF e >= s + 2 THEN e ELSE 0
  ELSE 0

\* the first match at or after position p: [s, e], or s = 0 when there is none
NextMatch(path, p) ==
  IF \E s \in p..Len(path) : MatchEnd(path, s) # 0
  THEN LET s == CHOOSE j \in p..Len(path) :
                  MatchEnd(path, j) # 0 /\ \A h \in p..(j - 1) : MatchEnd(path, h) = 0
       IN [s |-> s, e |-> MatchEnd(path, s)]
  ELSE [s |-> 0, e |-> 0]

\* the callback of path.replace: the encoded value, or the placeholder when
\* the lookup throws (any error)
Substitute(item, placeholder, paramName) ==
  LET r == getNodeParameter(item, paramName) IN
  IF IsThrow(r) THEN placeholder ELSE encodeURIComponent(r)

\* drafts 1 and 2: path.replace(/\{([^}]+)\}/g, callback), one pass over the
\* original string from position p
RECURSIVE ReplaceAll(_, _, _)
ReplaceAll(path, p, item) ==
  LET m == NextMatch(path, p) IN
  IF m.s = 0 THEN From(path, p)
  ELSE SubSeq(path, p, m.s - 1)
       \o Substitute(item, SubSeq(path, m.s, m.e), SubSeq(path, m.s + 1, m.e - 1))
       \o ReplaceAll(path, m.e + 1, item)

\* s.replace(pat, rep) with a string pattern: the first occurrence only
ReplaceFirst(s, pat, rep) ==
  IF \E k \in 1..(Len(s) - Len(pat) + 1) : SubSeq(s, k, k + Len(pat) - 1) = pat
  THEN LET k == CHOOSE j \in 1..(Len(s) - Len(pat) + 1) :
                  /\ SubSeq(s, j, j + Len(pat) - 1) = pat
                  /\ \A h \in 1..(j - 1) : SubSeq(s, h, h + Len(pat) - 1) # pat
       IN SubSeq(s, 1, k - 1) \o rep \o From(s, k + Len(pat))
  ELSE s

\* draft 3: while ((match = pathParamRegex.exec(path)) !== null) { path =
\* path.replace(...) }: the regex keeps lastIndex (0-based) while path changes
RECURSIVE ExecLoop(_, _, _)
ExecLoop(path, lastIndex, item) ==
  LET m == NextMatch(path, lastIndex + 1) IN
  IF m.s = 0 THEN path
  ELSE LET paramName == SubSeq(path, m.s + 1, m.e - 1)
           r == getNodeParameter(item, paramName)
       IN ExecLoop(IF IsThrow(r) THEN path
                   ELSE ReplaceFirst(path, SubSeq(path, m.s, m.e), encodeURIComponent(r)),
                   m.e, item)

\* path.match(/\{[^}]+\}/g): the matches, in order (empty for null)
RECURSIVE MatchAll(_, _)
MatchAll(path, p) ==
  LET m == NextMatch(path, p) IN
  IF m.s = 0 THEN <<>>
  ELSE <<SubSeq(path, m.s, m.e)>> \o MatchAll(path, m.e + 1)

\* ------------------------------------------------- operations, descriptors

GET    == <<"G", "E", "T">>
POST   == <<"P", "O", "S", "T">>
DELETE == <<"D", "E", "L", "E", "T", "E">>
SP     == <<" ">>

OpPost   == POST \o SP \o <<"/", "T">>                                \* "POST /T"
OpList   == GET \o SP \o <<"/", "T">>                                 \* "GET /T"
OpGetA   == GET \o SP \o <<"/", "T", "/", "{", "a", "}">>             \* "GET /T/{a}"
OpDelA   == DELETE \o SP \o <<"/", "T", "/", "{", "a", "}">>          \* "DELETE /T/{a}"
OpGetAB  == GET \o SP \o <<"/", "{", "a", "}", "{", "b", "}">>        \* "GET /{a}{b}"
OpGetAxB == GET \o SP \o <<"/", "{", "a", "}", "/", "{", "b", "}">>   \* "GET /{a}/{b}"
OpGetAA  == GET \o SP \o <<"/", "{", "a", "}", "/", "{", "a", "}">>   \* "GET /{a}/{a}"
OpEmpty   == <<>>                                                     \* ""
OpLower   == <<"g", "e", "t">> \o SP \o <<"/", "T">>                  \* "get /T"
OpNoSpace == GET \o <<"/", "T">>                                      \* "GET/T"

\* parameter names
pA == <<"a">>
pB == <<"b">>
pName == <<"n">>
pEnt == <<"e">>
pLimit == <<"l">>
hGlpiEntity == <<"GLPI-Entity">>

hAccept == <<"Accept">>
hAuthorization == <<"Authorization">>
hContentType == <<"Content-Type">>
AppJson == <<"application/json">>

\* parser.build(): the field descriptors generated from the OpenAPI document,
\* here one of each shape the executor distinguishes.  send is
\* routing.send.type, property is routing.send.property, ops is
\* displayOptions.show.operation (Undefined: no restriction declared).
properties ==
  << [name |-> pA, send |-> "none", property |-> Undefined,
      ops |-> Arr(<<OpGetA, OpDelA, OpGetAB, OpGetAxB, OpGetAA>>)],
     [name |-> pName, send |-> "body", property |-> Undefined,
      ops |-> Arr(<<OpPost, OpDelA>>)],
     [name |-> pEnt, send |-> "query", property |-> Str(<<"entity">>),
      ops |-> Arr(<<OpPost, OpList>>)],
     [name |-> pLimit, send |-> "query", property |-> Undefined,
      ops |-> Undefined],
     [name |-> hGlpiEntity, send |-> "header", property |-> Undefined,
      ops |-> Arr(<<OpPost, OpList, OpGetA>>)] >>

Routable(prop) == prop.send \in {"body", "query", "header"}

\* supported.includes(operation)
Includes(arr, x) == \E k \in 1..Len(arr) : arr[k] = x

\* draft 1: operationPropertiesMap.get(operation) ?? [], the index built at
\* load time from the routable descriptors that declare an operation array
operationPropertiesMap(operation) ==
  SelectSeq(properties,
            LAMBDA prop : /\ Routable(prop)
                          /\ prop.ops.t = "arr"
                          /\ Includes(prop.ops.v, operation))

\* drafts 2 and 3: the descriptors the loops over `properties` do not skip
applicableProperties(operation) ==
  SelectSeq(properties,
            LAMBDA prop : /\ Routable(prop)
                          /\ ~(prop.ops.t = "arr" /\ ~Includes(prop.ops.v, operation)))

\* routing.send.property ?? prop.name
KeyOf(prop) == IF prop.property.t = "undefined" THEN prop.name ELSE prop.property.v

\* ------------------------------------------------------- request building

NoError == Undefined

IsEmptyFor(v, val) == IF v = 1 THEN isEmptyValue(val) ELSE isEmptyValueZero(val)

\* what the catch around one parameter lookup does with a thrown error:
\* draft 1 rethrows a NodeOperationError, draft 2 swallows everything
Rethrown(v, thrown) == v = 1 /\ thrown.v = "NodeOperationError"

\* drafts 1 and 2: the loop that routes each descriptor's value
RECURSIVE CollectParams(_, _, _, _)
CollectParams(v, props, item, acc) ==
  IF props = <<>> \/ acc.err # NoError THEN acc
  ELSE LET prop  == Head(props)
           value == getNodeParameter(item, prop.name)
           key   == KeyOf(prop)
           next  ==
             IF IsThrow(value)
               THEN IF Rethrown(v, value) THEN [acc EXCEPT !.err = value] ELSE acc
             ELSE IF IsEmptyFor(v, value) THEN acc
             ELSE IF prop.send = "body"
               THEN [acc EXCEPT !.body = SetMember(@, key, value)]
             ELSE IF prop.send = "query"
               THEN [acc EXCEPT !.qs = SetMember(@, key, value)]
             ELSE [acc EXCEPT !.headers = SetMember(@, key, Str(JsString(value)))]
       IN CollectParams(v, Tail(props), item, next)

\* draft 3: one loop per destination over the descriptors of that type; every
\* lookup error is swallowed
RECURSIVE CollectKind(_, _, _, _)
CollectKind(kind, props, item, acc) ==
  IF props = <<>> THEN acc
  ELSE LET prop  == Head(props)
           value == getNodeParameter(item, prop.name)
           next  == IF prop.send # kind \/ IsThrow(value) \/ isEmptyValueZero(value)
                    THEN acc
                    ELSE SetMember(acc, KeyOf(prop), value)
       IN CollectKind(kind, Tail(props), item, next)

headerParams == << <<"Accept-Language">>, hGlpiEntity, <<"GLPI-Profile">>,
                   <<"GLPI-Entity-Recursive">> >>

\* draft 3: the loop over the fixed header names
RECURSIVE CollectHeaders(_, _, _)
CollectHeaders(names, item, acc) ==
  IF names = <<>> THEN acc
  ELSE LET value == getNodeParameter(item, Head(names))
           next  == IF IsThrow(value) \/ value.t \in {"undefined", "null"}
                       \/ value = Str(<<>>)
                    THEN acc
                    ELSE SetMember(acc, Head(names), Str(JsString(value)))
       IN CollectHeaders(Tail(names), item, next)

\* if (Object.keys(x).length > 0) requestOptions.<field> = x
AttachIfAny(members) == IF Len(members) > 0 THEN Obj(members) ELSE Undefined

\* baseUrl: glpiUrl.replace(/\/+$/, '')
RECURSIVE StripSlashes(_)
StripSlashes(url) ==
  IF url # <<>> /\ url[Len(url)] = "/"
  THEN StripSlashes(SubSeq(url, 1, Len(url) - 1)) ELSE url

ApiUrl(base, path) == base \o <<"/api.php">> \o path

Member(key, val) == [k |-> key, v |-> val]

Bearer(token) == Str(<<"Bearer ">> \o JsString(token))

InvalidMethodError(method) ==
  Throw("NodeOperationError",
        <<"Invalid HTTP method parsed from operation: \"">> \o method \o <<"\"">>)

MissingPathError(unresolved) ==
  Throw("NodeOperationError",
        <<"Missing required path parameter(s): ">> \o JoinWith(unresolved, <<", ">>))

\* a dispatcher that sets the Content-Type and attaches the body for any method
WithBodyAnyMethod(method, headers, body) ==
  [headers |-> SetMember(headers, hContentType, Str(AppJson)),
   body |-> AttachIfAny(body)]

\* the Content-Type header and the body of a request with method `method`
WithBody(method, headers, body) ==
  IF method \in bodyMethods
  THEN [headers |-> SetMember(headers, hContentType, Str(AppJson)),
        body |-> AttachIfAny(body)]
  ELSE [headers |-> headers, body |-> Undefined]

\* drafts 1 and 2, from the operation to requestOptions: [err, options]
BuildChecked(v, item, path, headers0, props, url) ==
  LET method == MethodOf(item.operation)
      unresolved == MatchAll(path, 1)
      acc == CollectParams(v, props, item,
                           [body |-> <<>>, qs |-> <<>>, headers |-> headers0,
                            err |-> NoError])
      hb == WithBody(method, acc.headers, acc.body)
  IN IF method \notin validMethods THEN [err |-> InvalidMethodError(method)]
     ELSE IF unresolved # <<>> THEN [err |-> MissingPathError(unresolved)]
     ELSE IF acc.err # NoError THEN [err |-> acc.err]
     ELSE [err |-> NoError,
           options |-> [method |-> method, url |-> url,
                        headers |-> hb.headers, body |-> hb.body,
                        qs |-> AttachIfAny(acc.qs), auth |-> Undefined]]

\* draft 1: Glpi.node.ts:161-248
BuildRequestV1(item, token, cred) ==
  LET path == ReplaceAll(BuildPath(PathPartOf(item.operation)), 1, item)
  IN BuildChecked(1, item, path,
                  <<Member(hAccept, Str(AppJson)), Member(hAuthorization, Bearer(token))>>,
                  operationPropertiesMap(item.operation),
                  ApiUrl(StripSlashes(cred.glpiUrl), path))

\* draft 2: Glpi.node.ts:376-463
BuildRequestV2(item, cred) ==
  LET path == ReplaceAll(BuildPathDash(PathPartOf(item.operation)), 1, item)
  IN BuildChecked(2, item, path,
                  <<Member(hAccept, Str(AppJson))>>,
                  applicableProperties(item.operation),
                  ApiUrl(StripSlashes(cred.glpiUrl), path))

\* draft 3: part_000:101-207, the request before the token is attached
BuildRequestV3(item, cred) ==
  LET method == MethodOf(item.operation)
      path == ExecLoop(BuildPathDash(PathPartOf(item.operation)), 0, item)
      props == applicableProperties(item.operation)
      hb == WithBody(method, <<Member(hAccept, Str(AppJson))>>,
                     IF method \in bodyMethods
                     THEN CollectKind("body", props, item, <<>>) ELSE <<>>)
  IN [err |-> NoError,
      options |-> [method |-> method, url |-> ApiUrl(cred.glpiUrl, path),
                   headers |-> CollectHeaders(headerParams, item, hb.headers),
                   body |-> hb.body,
                   qs |-> AttachIfAny(CollectKind("query", props, item, <<>>)),
                   auth |-> Undefined]]

\* draft 3: part_000:259, requestOptions.headers['Authorization'] = ...
WithAuthorization(options, token) ==
  [options EXCEPT !.headers = SetMember(@, hAuthorization, Bearer(token))]

\* ---------------------------------------------------------- token request

FormEntry(key, val) == key \o <<"=">> \o EncodeChars(val)

\* draft 1: tokenBodyEntries, Glpi.node.ts:132-140
tokenBodyEntries(cred) ==
  << Member(<<"grant_type">>, <<"password">>),
     Member(<<"username">>, cred.username),
     Member(<<"password">>, cred.password),
     Member(<<"scope">>, IF cred.scope = <<>> THEN <<"api">> ELSE cred.scope) >>
  \o (IF cred.clientId # <<>> THEN <<Member(<<"client_id">>, cred.clientId)>> ELSE <<>>)
  \o (IF cred.clientSecret # <<>>
      THEN <<Member(<<"client_secret">>, cred.clientSecret)>> ELSE <<>>)

\* new URLSearchParams(entries).toString()
URLSearchParams(entries) ==
  JoinWith([k \in 1..Len(entries) |-> FormEntry(entries[k].k, entries[k].v)], <<"&">>)

\* draft 1: the token request, Glpi.node.ts:142-149
TokenRequestV1(cred) ==
  [method |-> POST,
   url |-> StripSlashes(cred.glpiUrl) \o <<"/api.php/token">>,
   headers |-> <<Member(hContentType, Str(<<"application/x-www-form-urlencoded">>))>>,
   body |-> Str(URLSearchParams(tokenBodyEntries(cred))),
   qs |-> Undefined, auth |-> Undefined]

\* draft 3: the token request, part_000:229-246
TokenRequestV3(cred) ==
  [method |-> POST,
   url |-> cred.accessTokenUrl,
   headers |-> <<Member(hContentType, Str(<<"application/x-www-form-urlencoded">>))>>,
   body |-> Obj(<< Member(<<"grant_type">>, Str(<<"password">>)),
                   Member(<<"username">>, Str(cred.username)),
                   Member(<<"password">>, Str(cred.password)),
                   Member(<<"scope">>, Str(cred.scope)) >>),
   qs |-> Undefined,
   auth |-> Obj(<< Member(<<"username">>, Str(cred.clientId)),
                   Member(<<"password">>, Str(cred.clientSecret)) >>)]

\* !accessToken
Falsy(val) == val.t \in {"undefined", "null"} \/ val = Str(<<>>) \/ val = Num(0)

NoTokenError ==
  Throw("NodeOperationError",
        <<"OAuth2 token request succeeded but returned no access_token. Check GLPI credentials.">>)

\* draft 3: the error thrown when the token request fails, part_000:252-255
TokenFailedError(err) ==
  Throw("NodeOperationError", <<"OAuth2 token request failed: ">> \o err.msg)

\* draft 3: tokenData && tokenData.access_token && tokenData.expires_at &&
\* tokenData.expires_at > now
CachedToken(cred) ==
  IF cred.oauthTokenData = "valid" THEN Str(<<"tokC">>) ELSE Str(<<>>)

\* ------------------------------------------------------------ output records

\* a catch block that pushes the message without the error key
ErrorRecordBare(err) == [json |-> Str(err.msg)]

\* { json: { error: error.message } }
ErrorRecord(err) == [json |-> Obj(<<Member(<<"error">>, Str(err.msg))>>)]

\* a response handler that wraps every body in one record
ResponseRecordsWrapped(response) == <<[json |-> response]>>

\* Array.isArray(response) ? response.map(item => ({json: item})) : [{json: response}]
ResponseRecords(response) ==
  IF response.t = "arr"
  THEN [k \in 1..Len(response.v) |-> [json |-> response.v[k]]]
  ELSE <<[json |-> response]>>

\* ------------------------------------------------------------------ inputs

MaxItems == 2

Body1 == Obj(<<Member(<<"id">>, Num(1))>>)
Body2 == Obj(<<Member(<<"id">>, Num(2))>>)

\* what the remote answers to an API request: a body, or a failure
ApiOutcomes ==
  { [ok |-> TRUE, body |-> Body1], [ok |-> TRUE, body |-> Body2],
    [ok |-> TRUE, body |-> Arr(<<Body1, Body2>>)],
    [ok |-> TRUE, body |-> Arr(<<>>)],
    [ok |-> FALSE, err |-> Throw("Error", <<"Request failed with status code 500">>)] }

\* what the token endpoint answers: a token, a body without access_token, a failure
TokenOutcomes ==
  { [ok |-> TRUE, access_token |-> Str(<<"tokA">>)],
    [ok |-> TRUE, access_token |-> Undefined],
    [ok |-> FALSE, err |-> Throw("Error", <<"connect ECONNREFUSED">>)] }

Cred(clientId, clientSecret, tokenData) ==
  [glpiUrl |-> <<"https://glpi.example.com">>, username |-> <<"user">>,
   password |-> <<"pw">>, clientId |-> clientId, clientSecret |-> clientSecret,
   scope |-> <<"api">>, oauthTokenData |-> tokenData,
   accessTokenUrl |-> <<"https://glpi.example.com/api.php/token">>]

\* a public client, a confidential client with a cached token, a client id
\* without a secret
Credentials ==
  { Cred(<<>>, <<>>, "absent"), Cred(<<"cid">>, <<"sec">>, "valid"),
    Cred(<<"cid">>, <<>>, "absent") }

NoParams == [x \in {} |-> Undefined]
Item(operation, params) == [operation |-> operation, params |-> params]

\* items of a batch: a POST with a body field, a GET with its path parameter,
\* a GET without it, an operation with a lower-case method, a POST whose body
\* field fails to evaluate
BatchItems ==
  { Item(OpPost, pName :> Str(<<"x">>)),
    Item(OpGetA, pA :> Num(4)),
    Item(OpGetA, NoParams),
    Item(OpLower, NoParams),
    Item(OpPost, pName :> Throw("NodeOperationError", <<"invalid expression">>)) }

Batches(universe, n) == UNION {[1..k -> universe] : k \in 0..n}

HardFailure == Throw("NodeOperationError", <<"invalid expression">>)

\* the values a single item may give each parameter: a path parameter is a
\* number, the empty string, a string that needs encoding, or fails to
\* evaluate; the routed fields take the values the normalizer distinguishes
ValuesOf(n) ==
  IF n \in {pA, pB}
    THEN {Num(4), Str(<<>>), Str(<<"x", "/", "y", "z">>), HardFailure}
  ELSE IF n = pName
    THEN { Str(<<"x">>), Str(<<>>), Num(0), Null, Str(<<"{", "}">>),
           Str(<<"[", "\n", " ", "{", "}", "\n", "]">>), Str(<<"0">>),
           Arr(<<>>), Arr(<<Arr(<<>>)>>), Obj(<<>>), Arr(<<Num(1)>>), HardFailure }
  ELSE IF n = pEnt THEN {Num(0), Num(7)}
  ELSE IF n = pLimit THEN {Num(5)}
  ELSE {Num(0), Str(<<"{", "}">>), Str(<<"fr_FR">>)}

\* the parameter bags that give some of `names` a value
ParamMaps(names) ==
  UNION { {m \in [sub -> UNION {ValuesOf(n) : n \in sub}] :
             \A n \in sub : m[n] \in ValuesOf(n)} : sub \in SUBSET names }

\* single items that exercise path resolution: every template with each of its
\* path parameters missing or given
PathItems ==
  { Item(op, m) : op \in {OpGetA, OpDelA, OpGetAB, OpGetAxB, OpGetAA},
                  m \in ParamMaps({pA, pB}) }

\* single items that exercise parameter routing
FieldItems ==
  { Item(op, m @@ (pA :> Num(4))) :
      op \in {OpPost, OpList, OpGetA},
      m \in ParamMaps({pName, pEnt, pLimit, hGlpiEntity}) }

\* single items of a method without a payload that give a body field a value
BodylessItems ==
  { Item(OpDelA, m @@ (pA :> Num(4))) : m \in ParamMaps({pName}) }

\* operation identifiers that do not parse
BadOperationItems ==
  { Item(op, NoParams) : op \in {OpEmpty, OpLower, OpNoSpace} }

Singles(universe) == [1..1 -> universe]

\* ------------------------------------------------------------------- state

VARIABLES
  variant,         \* which draft of execute runs
  continueOnFail,  \* this.continueOnFail()
  items,           \* this.getInputData(), with each item's parameters
  credentials,     \* this.getCredentials('glpiOAuth2Api')
  pc,              \* where execute is: start, token, awaitToken, loop,
                   \* awaitItemToken, awaitApi, done, failed
  i,               \* the loop index (1-based)
  returnData,      \* the output records collected so far
  accessToken,     \* the token in use
  req,             \* draft 3: the request waiting for its token
  requests,        \* every HTTP request issued so far, in order
  thrown,          \* the error execute ended with
  returned,        \* what execute returned to the caller
  outcomes,        \* per finished item: what its processing ended with
  tokenReplies,    \* every answer of the token endpoint so far, in order
  input,           \* the value handed to isEmptyValue on its own
  verdict          \* what isEmptyValue said of input: pending, absent, present

vars == <<variant, continueOnFail, items, credentials, pc, i, returnData,
          accessToken, req, requests, thrown, returned, outcomes, tokenReplies,
          input, verdict>>

Pending == "pending"

NoReq == Undefined
NotReturned == <<>>

InitWith(batches) ==
  /\ variant \in {1, 2, 3}
  /\ continueOnFail \in BOOLEAN
  /\ items \in batches
  /\ credentials \in Credentials
  /\ pc = "start"
  /\ i = 1
  /\ returnData = <<>>
  /\ accessToken = Undefined
  /\ req = NoReq
  /\ requests = <<>>
  /\ thrown = NoError
  /\ returned = NotReturned
  /\ outcomes = <<>>
  /\ tokenReplies = <<>>
  /\ input = Undefined
  /\ verdict = Pending

Init ==
  InitWith(Batches(BatchItems, MaxItems)
           \cup Singles(PathItems \cup FieldItems \cup BodylessItems
                        \cup BadOperationItems))

\* an HTTP request leaves: kind is "token" or "api", item the loop index it
\* was issued for (0 before the loop), via the helper that sends it
Issued(kind, item, via, options) ==
  [kind |-> kind, item |-> item, via |-> via, options |-> options]

\* a catch block that never rethrows
CatchAlwaysContinue(err) ==
  /\ outcomes' = Append(outcomes, [item |-> i, ok |-> FALSE, err |-> err])
  /\ returnData' = Append(returnData, ErrorRecord(err))
  /\ i' = i + 1
  /\ pc' = "loop"
  /\ thrown' = thrown

\* the catch block of the item loop
Catch(err) ==
  /\ outcomes' = Append(outcomes, [item |-> i, ok |-> FALSE, err |-> err])
  /\ IF continueOnFail
     THEN /\ returnData' = Append(returnData, ErrorRecord(err))
          /\ i' = i + 1
          /\ pc' = "loop"
          /\ thrown' = thrown
     ELSE /\ pc' = "failed"
          /\ thrown' = err
          /\ UNCHANGED <<returnData, i>>

\* getInputData, getCredentials
Begin ==
  /\ pc = "start"
  /\ pc' = IF variant = 1 THEN "token" ELSE "loop"
  /\ UNCHANGED <<input, verdict, variant, continueOnFail, items, credentials, i, returnData,
                 accessToken, req, requests, thrown, returned, outcomes,
                 tokenReplies>>

\* draft 1: the token request before the loop
SendTokenRequest ==
  /\ pc = "token"
  /\ requests' = Append(requests,
                        Issued("token", 0, "httpRequest", TokenRequestV1(credentials)))
  /\ pc' = "awaitToken"
  /\ UNCHANGED <<input, verdict, variant, continueOnFail, items, credentials, i, returnData,
                 accessToken, req, thrown, returned, outcomes, tokenReplies>>

\* draft 1: the token endpoint answers; outside the loop's try
TokenResponse ==
  /\ pc = "awaitToken"
  /\ \E r \in TokenOutcomes :
       /\ tokenReplies' = Append(tokenReplies, r)
       /\ IF ~r.ok
            THEN /\ pc' = "failed" /\ thrown' = r.err /\ UNCHANGED accessToken
          ELSE IF Falsy(r.access_token)
            THEN /\ pc' = "failed" /\ thrown' = NoTokenError /\ UNCHANGED accessToken
          ELSE /\ pc' = "loop" /\ accessToken' = r.access_token /\ UNCHANGED thrown
  /\ UNCHANGED <<input, verdict, variant, continueOnFail, items, credentials, i, returnData,
                 req, requests, returned, outcomes>>

\* the synchronous part of one loop iteration, up to the request it sends
ProcessItem ==
  /\ pc = "loop"
  /\ i <= Len(items)
  /\ LET b == CASE variant = 1 -> BuildRequestV1(items[i], accessToken, credentials)
                [] variant = 2 -> BuildRequestV2(items[i], credentials)
                [] variant = 3 -> BuildRequestV3(items[i], credentials)
     IN IF b.err # NoError
        THEN /\ Catch(b.err)
             /\ UNCHANGED <<accessToken, req, requests>>
        ELSE IF variant = 1
        THEN /\ requests' = Append(requests, Issued("api", i, "httpRequest", b.options))
             /\ pc' = "awaitApi"
             /\ UNCHANGED <<accessToken, req, i, returnData, thrown, outcomes>>
        ELSE IF variant = 2
        THEN /\ requests' = Append(requests,
                      Issued("api", i, "httpRequestWithAuthentication", b.options))
             /\ pc' = "awaitApi"
             /\ UNCHANGED <<accessToken, req, i, returnData, thrown, outcomes>>
        ELSE IF ~Falsy(CachedToken(credentials))
        THEN /\ accessToken' = CachedToken(credentials)
             /\ requests' = Append(requests,
                      Issued("api", i, "httpRequest",
                             WithAuthorization(b.options, CachedToken(credentials))))
             /\ pc' = "awaitApi"
             /\ UNCHANGED <<req, i, returnData, thrown, outcomes>>
        ELSE /\ accessToken' = Str(<<>>)
             /\ req' = b.options
             /\ requests' = Append(requests,
                      Issued("token", i, "httpRequest", TokenRequestV3(credentials)))
             /\ pc' = "awaitItemToken"
             /\ UNCHANGED <<i, returnData, thrown, outcomes>>
  /\ UNCHANGED <<input, verdict, variant, continueOnFail, items, credentials, returned, tokenReplies>>

\* draft 3: the token endpoint answers inside the item's try
ItemTokenResponse ==
  /\ pc = "awaitItemToken"
  /\ \E r \in TokenOutcomes :
       /\ tokenReplies' = Append(tokenReplies, r)
       /\ IF ~r.ok
            THEN /\ Catch(TokenFailedError(r.err))
                 /\ UNCHANGED <<accessToken, requests>>
            ELSE /\ accessToken' = r.access_token
                 /\ requests' = Append(requests,
                          Issued("api", i, "httpRequest",
                                 WithAuthorization(req, r.access_token)))
                 /\ pc' = "awaitApi"
                 /\ UNCHANGED <<i, returnData, thrown, outcomes>>
  /\ req' = NoReq
  /\ UNCHANGED <<input, verdict, variant, continueOnFail, items, credentials, returned>>

\* the remote answers the item's API request
ApiResponse ==
  /\ pc = "awaitApi"
  /\ \E r \in ApiOutcomes :
       IF ~r.ok
       THEN Catch(r.err)
       ELSE /\ returnData' = returnData \o ResponseRecords(r.body)
            /\ outcomes' = Append(outcomes, [item |-> i, ok |-> TRUE, body |-> r.body])
            /\ i' = i + 1
            /\ pc' = "loop"
            /\ UNCHANGED thrown
  /\ UNCHANGED <<input, verdict, variant, continueOnFail, items, credentials, accessToken, req,
                 requests, returned, tokenReplies>>

\* return [returnData]
Return ==
  /\ pc = "loop"
  /\ i > Len(items)
  /\ pc' = "done"
  /\ returned' = <<returnData>>
  /\ UNCHANGED <<input, verdict, variant, continueOnFail, items, credentials, i, returnData,
                 accessToken, req, requests, thrown, outcomes, tokenReplies>>

Next ==
  \/ Begin
  \/ SendTokenRequest
  \/ TokenResponse
  \/ ProcessItem
  \/ ItemTokenResponse
  \/ ApiResponse
  \/ Return

Spec == Init /\ [][Next]_vars

\* ------------------------------------------------- isEmptyValue on its own

MaxStringLen == 4
MaxElems == 2

\* the characters of the strings handed to isEmptyValue
Alphabet == {"{", "}", "[", "]", " ", "0"}

\* every string over the alphabet, up to MaxStringLen characters
Strings == UNION {[1..n -> Alphabet] : n \in 0..MaxStringLen}

\* strings outside the alphabet: text, numbers, null, quoted strings, the
\* serialized forms n8n gives an untouched JSON field, non-empty documents
ExtraStrings ==
  { <<"x">>, <<"1">>, <<"n", "u", "l", "l">>, <<"\"", "\"">>, <<"\"", "0", "\"">>,
    <<"[", "1", "]">>, <<"[", "\n", " ", " ", "{", "}", "\n", "]">>,
    <<"\t", "{", "}", "\n">>, <<"[", "{", "}", ",", "{", "}", "]">>,
    <<"{", "\"", "a", "\"", ":", "1", "}">>, <<"[", "n", "u", "l", "l", "]">> }

\* what a sequence may hold
Elements ==
  { Num(0), Num(1), Str(<<"x">>), Str(<<>>), Null, Arr(<<>>), Obj(<<>>),
    Obj(<<Member(<<"a">>, Num(1))>>) }

Sequences == {Arr(els) : els \in UNION {[1..n -> Elements] : n \in 0..MaxElems}}

Mappings == {Obj(<<>>), Obj(<<Member(<<"a">>, Num(1))>>), Obj(<<Member(<<"a">>, Obj(<<>>))>>)}

NormalizerInputs ==
  {Str(s) : s \in Strings \cup ExtraStrings} \cup Sequences \cup Mappings
    \cup {Undefined, Null, Num(0), Num(1)}

\* a value is about to be handed to the copy of isEmptyValue of draft `variant`
InitNormalizer ==
  /\ variant \in {1, 2, 3}
  /\ input \in NormalizerInputs
  /\ verdict = Pending
  /\ pc = "normalizer"
  /\ continueOnFail = FALSE
  /\ items = <<>>
  /\ credentials = Cred(<<>>, <<>>, "absent")
  /\ i = 1
  /\ returnData = <<>>
  /\ accessToken = Undefined
  /\ req = NoReq
  /\ requests = <<>>
  /\ thrown = NoError
  /\ returned = NotReturned
  /\ outcomes = <<>>
  /\ tokenReplies = <<>>

\* isEmptyValue(input)
Normalize ==
  /\ pc = "normalizer"
  /\ verdict = Pending
  /\ verdict' = IF IsEmptyFor(variant, input) THEN "absent" ELSE "present"
  /\ UNCHANGED <<input, variant, continueOnFail, items, credentials, pc, i,
                 returnData, accessToken, req, requests, thrown, returned,
                 outcomes, tokenReplies>>

NextNormalizer == Normalize

SpecNormalizer == InitNormalizer /\ [][NextNormalizer]_vars

TypeOK ==
  /\ pc \in {"start", "token", "awaitToken", "loop", "awaitItemToken", "awaitApi",
             "done", "failed"}
  /\ i \in 1..(Len(items) + 1)

\* ------------------------------------------------------------------ claims

\* every successful response so far was a non-sequence body
NonSequenceBatch ==
  \A k \in 1..Len(outcomes) : outcomes[k].ok => outcomes[k].body.t # "arr"

\* the output record an item's outcome calls for
ExpectedRecord(o) ==
  IF o.ok THEN [json |-> o.body]
  ELSE [json |-> Obj(<<[k |-> <<"error">>, v |-> Str(o.err.msg)]>>)]

\* C1: with continue-on-failure, a batch of N items with non-sequence responses
\* returns exactly N records in input order, record k being item k's response
\* or {error: message} when item k failed; every item is processed, and
\* execute does not end with an item's error.
C1_ContinueOnFailKeepsEveryItem ==
  continueOnFail =>
    /\ (pc = "failed" => outcomes = <<>>)
    /\ (pc = "done" /\ NonSequenceBatch =>
          /\ Len(outcomes) = Len(items)
          /\ \A k \in 1..Len(outcomes) : outcomes[k].item = k
          /\ returned = << [k \in 1..Len(items) |-> ExpectedRecord(outcomes[k])] >>)

\* a batch of two whose first item failed and whose second item succeeded
C1_Witness ==
  /\ continueOnFail /\ pc = "done" /\ NonSequenceBatch
  /\ Len(items) = MaxItems /\ Len(outcomes) = Len(items)
  /\ ~outcomes[1].ok /\ outcomes[Len(items)].ok

\* C2: without continue-on-failure, the first failing item ends execute with
\* exactly its error: no request is issued for a later item and no records are
\* returned, not even those collected before the failure.
C2_AbortOnFirstFailure ==
  ~continueOnFail =>
    \A k \in 1..Len(outcomes) :
      ~outcomes[k].ok =>
        /\ k = Len(outcomes)
        /\ pc = "failed"
        /\ thrown = outcomes[k].err
        /\ returned = NotReturned
        /\ \A r \in 1..Len(requests) : requests[r].item <= outcomes[k].item

\* the second item failed after the first one's record had been collected
C2_Witness ==
  /\ ~continueOnFail /\ pc = "failed"
  /\ Len(outcomes) > 1 /\ outcomes[1].ok /\ ~outcomes[Len(outcomes)].ok
  /\ returnData # <<>> /\ returned = NotReturned

\* the positions, in `requests`, of the API requests and of the token requests
ApiIdx == {k \in 1..Len(requests) : requests[k].kind = "api"}
TokenIdx == {k \in 1..Len(requests) : requests[k].kind = "token"}

\* the token endpoint failed, or answered without an access_token
BadTokenReply(r) == ~r.ok \/ Falsy(r.access_token)

\* the Authorization header execute itself put on the request
AuthorizationOf(options) ==
  IF HasMember(options.headers, hAuthorization)
  THEN GetMember(options.headers, hAuthorization) ELSE Undefined

\* C3: when the token endpoint fails or answers without an access_token,
\* execute ends with an error and returns nothing, the error is not turned into
\* an output record even with continue-on-failure, and no API request that
\* execute authorizes itself carries a missing, empty or undefined bearer value.
C3_TokenFailureIsHard ==
  /\ \A k \in 1..Len(tokenReplies) :
       BadTokenReply(tokenReplies[k]) =>
         /\ pc = "failed"
         /\ thrown # NoError
         /\ returnData = <<>>
         /\ returned = NotReturned
  /\ \A k \in ApiIdx :
       requests[k].via = "httpRequest" =>
         AuthorizationOf(requests[k].options) \notin
           {Undefined, Bearer(Undefined), Bearer(Null), Bearer(Str(<<>>))}

\* C4: one execute sends at most one token request, no API request precedes
\* it, and no API request has been issued while a token request is unanswered.
C4_OneTokenRequestPerBatch ==
  /\ Cardinality(TokenIdx) <= 1
  /\ \A t \in TokenIdx : \A a \in ApiIdx : t < a
  /\ (Len(tokenReplies) < Cardinality(TokenIdx) => ApiIdx = {})

\* C5: no API request carries a method outside GET, POST, PUT, PATCH, DELETE,
\* and an item whose operation does not split into such a method ends with an
\* operation error without any request having been issued for it.
C5_InvalidMethodRejected ==
  /\ \A k \in ApiIdx : requests[k].options.method \in validMethods
  /\ \A o \in 1..Len(outcomes) :
       MethodOf(items[outcomes[o].item].operation) \notin validMethods =>
         /\ ~outcomes[o].ok
         /\ outcomes[o].err.v = "NodeOperationError"
         /\ \A k \in 1..Len(requests) : requests[k].item # outcomes[o].item

\* the path template the running draft derives from the operation
TemplateOf(v, operation) ==
  IF v = 1 THEN BuildPath(PathPartOf(operation)) ELSE BuildPathDash(PathPartOf(operation))

\* the item gives the parameter a value
HasValue(item, name) == name \in DOMAIN item.params /\ ~IsThrow(item.params[name])

\* the placeholders of the template, in order, whose name has no value
Unresolved(template, item) ==
  SelectSeq(MatchAll(template, 1),
            LAMBDA ph : ~HasValue(item, SubSeq(ph, 2, Len(ph) - 1)))

\* C6: no API request's URL contains a {name} placeholder, and an item that
\* leaves a path parameter of its template without a value ends with the
\* "missing required path parameter" error listing every unresolved
\* placeholder, without an API request having been issued for it.
C6_NoUnresolvedPlaceholder ==
  /\ \A k \in ApiIdx : MatchAll(requests[k].options.url, 1) = <<>>
  /\ \A o \in 1..Len(outcomes) :
       LET item == items[outcomes[o].item]
           u == Unresolved(TemplateOf(variant, item.operation), item)
       IN MethodOf(item.operation) \in validMethods /\ u # <<>> =>
            /\ ~outcomes[o].ok
            /\ outcomes[o].err = MissingPathError(u)
            /\ \A k \in ApiIdx : requests[k].item # outcomes[o].item

\* the template with every placeholder replaced by the encoded value of its
\* own name, read character by character from position p
RECURSIVE Resolved(_, _, _)
Resolved(template, p, item) ==
  IF p > Len(template) THEN <<>>
  ELSE IF MatchEnd(template, p) # 0
    THEN encodeURIComponent(item.params[SubSeq(template, p + 1, MatchEnd(template, p) - 1)])
         \o Resolved(template, MatchEnd(template, p) + 1, item)
  ELSE <<template[p]>> \o Resolved(template, p + 1, item)

\* the item's template with all its placeholders given a value
CompleteMap(item) ==
  Unresolved(TemplateOf(variant, item.operation), item) = <<>>

\* C7: when the item gives every placeholder of its template a value, the
\* request goes to the template with each placeholder replaced by the encoded
\* value of its own name, no {...} token is left in the URL, and the item is
\* not rejected for a missing path parameter.
C7_EveryPlaceholderResolved ==
  /\ \A k \in ApiIdx :
       LET item == items[requests[k].item] IN
       CompleteMap(item) =>
         /\ requests[k].options.url =
              ApiUrl(StripSlashes(credentials.glpiUrl),
                     Resolved(TemplateOf(variant, item.operation), 1, item))
         /\ MatchAll(requests[k].options.url, 1) = <<>>
  /\ \A o \in 1..Len(outcomes) :
       CompleteMap(items[outcomes[o].item]) /\ ~outcomes[o].ok =>
         outcomes[o].err.msg[1] # "Missing required path parameter(s): "

\* the members of the part of a request a descriptor of type `send` fills
Destination(options, send) ==
  IF send = "body" THEN (IF options.body.t = "obj" THEN options.body.v ELSE <<>>)
  ELSE IF send = "query" THEN (IF options.qs.t = "obj" THEN options.qs.v ELSE <<>>)
  ELSE options.headers

\* the request carries something under the descriptor's target key
Present(options, prop) == HasMember(Destination(options, prop.send), KeyOf(prop))

\* the request carries the value under the descriptor's target key (a header
\* carries its string form)
Placed(options, prop, value) ==
  /\ Present(options, prop)
  /\ GetMember(Destination(options, prop.send), KeyOf(prop)) =
       IF prop.send = "header" THEN Str(JsString(value)) ELSE value

\* the descriptors with a routing type, by position
Routed == {k \in 1..Len(properties) : Routable(properties[k])}

\* the descriptor applies to the operation: it lists it, or lists nothing
Declares(prop, operation) ==
  prop.ops.t = "undefined" \/ Includes(prop.ops.v, operation)

\* the descriptor lists the operation explicitly
Lists(prop, operation) == prop.ops.t = "arr" /\ Includes(prop.ops.v, operation)

\* the request has a place for the descriptor: a body exists for POST, PUT, PATCH
HasPlace(options, prop) == prop.send = "body" => options.method \in bodyMethods

\* a value no draft's normalizer takes for absent
KeptByAll(item, name) ==
  /\ HasValue(item, name)
  /\ ~isEmptyValue(item.params[name])
  /\ ~isEmptyValueZero(item.params[name])

\* C8: a descriptor's value reaches the request for operation X exactly when
\* the descriptor lists X or declares no operation restriction: a descriptor
\* restricted to other operations is never used, an unrestricted one always is.
C8_DescriptorsOfTheOperation ==
  \A k \in ApiIdx :
    LET item == items[requests[k].item] IN
    \A d \in Routed :
      KeptByAll(item, properties[d].name) /\ HasPlace(requests[k].options, properties[d]) =>
        (Present(requests[k].options, properties[d])
           <=> Declares(properties[d], item.operation))

\* C9: a body or query parameter of the operation whose value is the number 0
\* is not taken for absent by the normalizer and is in the request under its
\* target key.
C9_ZeroIsAValue ==
  \A k \in ApiIdx :
    LET item == items[requests[k].item] IN
    \A d \in Routed :
      /\ properties[d].send \in {"body", "query"}
      /\ Lists(properties[d], item.operation)
      /\ HasPlace(requests[k].options, properties[d])
      /\ HasValue(item, properties[d].name)
      /\ item.params[properties[d].name] = Num(0)
      => /\ ~IsEmptyFor(variant, Num(0))
         /\ Placed(requests[k].options, properties[d], Num(0))

\* the drafts' normalizers agree on the value
SameVerdict(val) == isEmptyValue(val) = isEmptyValueZero(val)

\* every member of the body and of the query string is some descriptor's
KnownKeys(options, send) ==
  \A m \in 1..Len(Destination(options, send)) :
    \E d \in Routed : /\ properties[d].send = send
                      /\ KeyOf(properties[d]) = Destination(options, send)[m].k

\* C10: in every API request, a parameter the operation lists is in its body,
\* query string or headers, under its target key, exactly when the item gives
\* it a value the normalizer does not take for absent; the body and the query
\* string hold nothing else.
C10_OnlyPresentValuesAreSent ==
  \A k \in ApiIdx :
    LET item == items[requests[k].item] IN
    /\ KnownKeys(requests[k].options, "body")
    /\ KnownKeys(requests[k].options, "query")
    /\ \A d \in Routed :
         Lists(properties[d], item.operation) /\ HasPlace(requests[k].options, properties[d]) =>
           IF ~HasValue(item, properties[d].name)
             THEN ~Present(requests[k].options, properties[d])
           ELSE IF ~SameVerdict(item.params[properties[d].name]) THEN TRUE
           ELSE IF isEmptyValue(item.params[properties[d].name])
             THEN ~Present(requests[k].options, properties[d])
           ELSE Placed(requests[k].options, properties[d], item.params[properties[d].name])

\* some body field of the item's operation has a value that is not absent
SomeBodyValue(item) ==
  \E d \in Routed :
    /\ properties[d].send = "body"
    /\ Declares(properties[d], item.operation)
    /\ HasValue(item, properties[d].name)
    /\ ~isEmptyValue(item.params[properties[d].name])

\* C11: an API request carries a body only when its method is POST, PUT or
\* PATCH and some body field has a value that is not absent; a request of
\* another method carries neither a body nor a Content-Type header; a body and
\* a query string, where attached, are non-empty mappings.
C11_BodyOnlyWithPayloadMethods ==
  \A k \in ApiIdx :
    LET o == requests[k].options IN
    /\ o.body # Undefined =>
         /\ o.method \in bodyMethods
         /\ o.body.t = "obj" /\ Len(o.body.v) > 0
         /\ SomeBodyValue(items[requests[k].item])
    /\ o.method \notin bodyMethods =>
         /\ o.body = Undefined
         /\ ~HasMember(o.headers, hContentType)
    /\ o.qs # Undefined => o.qs.t = "obj" /\ Len(o.qs.v) > 0

\* a DELETE request left without a body although its item gives the body
\* field of the operation a value
C11_Witness ==
  \E k \in ApiIdx :
    /\ requests[k].options.body = Undefined
    /\ requests[k].options.method = DELETE
    /\ SomeBodyValue(items[requests[k].item])

\* the concatenation of a sequence of sequences
RECURSIVE Flatten(_)
Flatten(seqs) == IF seqs = <<>> THEN <<>> ELSE Head(seqs) \o Flatten(Tail(seqs))

\* the records an item's outcome adds to the output: one per element of a
\* sequence body, one for any other body, the error record of a captured failure
RecordsFor(o) ==
  IF o.ok
    THEN IF o.body.t = "arr"
         THEN [e \in 1..Len(o.body.v) |-> [json |-> o.body.v[e]]]
         ELSE <<[json |-> o.body]>>
  ELSE IF continueOnFail THEN <<ExpectedRecord(o)>>
  ELSE <<>>

\* C12: each successfully processed item adds one record per element of a
\* sequence body, in element order (none for an empty sequence), and one
\* record for any other body; the records collected, and returned at the end,
\* are those of the items in input order.
C12_OneRecordPerElement ==
  /\ \A k \in 1..Len(outcomes) : outcomes[k].item = k
  /\ returnData = Flatten([k \in 1..Len(outcomes) |-> RecordsFor(outcomes[k])])
  /\ pc = "done" => returned = <<returnData>> /\ Len(outcomes) = Len(items)

\* a full batch returned one record more than it has items: two for the first
\* item's sequence body, one for each other item
C12_Witness ==
  /\ pc = "done" /\ Len(items) = MaxItems /\ Len(outcomes) = MaxItems
  /\ outcomes[1].ok /\ outcomes[1].body = Arr(<<Body1, Body2>>)
  /\ outcomes[MaxItems].ok /\ outcomes[MaxItems].body = Body2
  /\ Len(returned[1]) = Len(items) + 1
  /\ SubSeq(returned[1], 1, 2) = <<[json |-> Body1], [json |-> Body2]>>

\* the positions at which an entry of a form-encoded string starts
EntryStarts(form) == {j \in 1..Len(form) : j = 1 \/ form[j - 1] = "&"}

\* the keys of the form a token request sends: of its encoded string, or of
\* the mapping handed to the helper
FormKeys(options) ==
  IF options.body.t = "str"
  THEN {<<options.body.v[j]>> : j \in EntryStarts(options.body.v)}
  ELSE {options.body.v[j].k : j \in 1..Len(options.body.v)}

\* the position after the entry that starts at j
EntryEnd(form, j) ==
  IF \E e \in j..Len(form) : form[e] = "&"
  THEN CHOOSE e \in j..Len(form) :
         form[e] = "&" /\ \A h \in j..(e - 1) : form[h] # "&"
  ELSE Len(form) + 1

\* the value the form sends under key
FormValue(options, key) ==
  IF options.body.t = "str"
  THEN LET form == options.body.v
           j == CHOOSE h \in EntryStarts(form) : <<form[h]>> = key
       IN SubSeq(form, j + 2, EntryEnd(form, j) - 1)
  ELSE GetMember(options.body.v, key).v

\* C13: the form of a token request has the key client_id exactly when the
\* credential's client id is non-empty, and client_secret exactly when its
\* client secret is non-empty, each with the credential's value; with both
\* empty the request carries them nowhere else either.
C13_ClientKeysOnlyWhenGiven ==
  \A k \in TokenIdx :
    LET o == requests[k].options IN
    /\ <<"client_id">> \in FormKeys(o) <=> credentials.clientId # <<>>
    /\ <<"client_secret">> \in FormKeys(o) <=> credentials.clientSecret # <<>>
    /\ credentials.clientId # <<>> =>
         FormValue(o, <<"client_id">>) = EncodeChars(credentials.clientId)
    /\ credentials.clientSecret # <<>> =>
         FormValue(o, <<"client_secret">>) = EncodeChars(credentials.clientSecret)
    /\ credentials.clientId = <<>> /\ credentials.clientSecret = <<>> =>
         o.auth = Undefined

\* the names of the path parameters of the item's template
PathNames(item) ==
  LET phs == MatchAll(TemplateOf(variant, item.operation), 1)
  IN {SubSeq(phs[j], 2, Len(phs[j]) - 1) : j \in 1..Len(phs)}

\* the names of the body, query and header fields of the item's operation
FieldNames(item) ==
  {properties[d].name : d \in {r \in Routed : Lists(properties[r], item.operation)}}

\* the parameters of the item whose lookup fails hard, among `names`
HardFailures(item, names) ==
  {n \in names : n \in DOMAIN item.params /\ IsThrow(item.params[n])}

\* the error with which the lookup of a missing field fails softly
IsSoftFailure(err) == err.v = "Error" /\ err.msg[1] = "could not get parameter"

\* C14: a lookup that fails softly never ends an item, which still gets its
\* request; a body, query, header or path parameter whose lookup fails hard
\* ends the item with that same error, and no API request is issued for it.
C14_HardFailuresPropagate ==
  /\ \A k \in ApiIdx :
       LET item == items[requests[k].item] IN
       HardFailures(item, PathNames(item) \cup FieldNames(item)) = {}
  /\ \A o \in 1..Len(outcomes) :
       LET item == items[outcomes[o].item]
           hard == HardFailures(item, PathNames(item) \cup FieldNames(item))
       IN /\ hard # {} =>
               /\ ~outcomes[o].ok
               /\ outcomes[o].err \in {item.params[n] : n \in hard}
          /\ ~outcomes[o].ok => ~IsSoftFailure(outcomes[o].err)
          /\ hard = {} /\ CompleteMap(item) /\ MethodOf(item.operation) \in validMethods =>
               \E k \in ApiIdx : requests[k].item = outcomes[o].item

\* whether the claimed policy takes a value for absent: a string by the rule
\* for strings, a number never, anything else as the running copy decides
RECURSIVE ClaimedAbsent(_)
RECURSIVE ClaimedAbsentParsed(_)

ClaimedAbsentParsed(parsed) == parsed.ok /\ ClaimedAbsent(parsed.v)

ClaimedAbsentTrimmed(t) ==
  t = <<"{", "}">> \/ t = <<"[", "]">> \/ ClaimedAbsentParsed(JSONparse(t))

ClaimedAbsent(v) ==
  IF v.t = "str" THEN v.v = <<>> \/ ClaimedAbsentTrimmed(Trim(v.v))
  ELSE IF v.t = "num" THEN FALSE
  ELSE IsEmptyFor(variant, v)

\* C15: a string is absent exactly when it is empty, or trimmed is "{}" or
\* "[]", or trimmed parses as JSON to a value that is absent under the same
\* policy; a string that does not parse, or that parses to a number (0
\* included) or to another present value, is present.
C15_StringsByTheirJson ==
  verdict # Pending /\ input.t = "str" =>
    (verdict = "absent" <=> ClaimedAbsent(input))

\* the sequence is empty or holds nothing but empty mappings
OnlyEmptyMappings(els) ==
  \A e \in 1..Len(els) : els[e].t = "obj" /\ Len(els[e].v) = 0

\* C16: a sequence is absent exactly when it is empty or every element is an
\* empty mapping (an element that is a number, a string, null, a sequence or
\* a non-empty mapping makes it present); a mapping is absent exactly when it
\* has no keys.
C16_SequencesAndMappings ==
  verdict # Pending =>
    /\ input.t = "arr" => (verdict = "absent" <=> OnlyEmptyMappings(input.v))
    /\ input.t = "obj" => (verdict = "absent" <=> Len(input.v) = 0)

\* the access tokens this invocation has obtained: those the token endpoint
\* answered with, and in draft 3 the valid token cached in the credential
ObtainedTokens ==
  {tokenReplies[k].access_token :
     k \in {j \in 1..Len(tokenReplies) :
              tokenReplies[j].ok /\ ~Falsy(tokenReplies[j].access_token)}}
  \cup (IF variant = 3 /\ ~Falsy(CachedToken(credentials))
        THEN {CachedToken(credentials)} ELSE {})

\* C17: every API request carries Accept: application/json, and every API
\* request execute authorizes itself carries Authorization: Bearer followed
\* by an access token obtained in this invocation, whatever values the item
\* gives its parameters.
C17_FixedHeadersAlwaysSent ==
  \A k \in ApiIdx :
    /\ HasMember(requests[k].options.headers, hAccept)
    /\ GetMember(requests[k].options.headers, hAccept) = Str(AppJson)
    /\ requests[k].via = "httpRequest" =>
         AuthorizationOf(requests[k].options) \in {Bearer(t) : t \in ObtainedTokens}
====
